---- MODULE Spec2Model ----
(***************************************************************************)
(* Model of backend/app.py: the FastAPI router of the career-advisor       *)
(* chatbot.  Four routes (GET /, GET /history, POST /ask, POST /tts)       *)
(* forward to three collaborators: process_query (chat), get_session_      *)
(* history (session_store) and text_to_speech (talk).  The collaborators'  *)
(* modules are not part of the sources at hand; they are modelled from     *)
(* the specification and marked so in the model map.                       *)
(*                                                                         *)
(* get_history is a plain `def`, which FastAPI runs on a worker thread, so *)
(* a /history request may run between the two collaborator calls of an     *)
(* /ask.  The model splits /ask at that point (AskCall, AskFinish) and     *)
(* allows any interleaving of the steps of the requests in flight.         *)
(***************************************************************************)
EXTENDS Integers, Sequences, FiniteSets, TLC

\* ------------------------------------------------------------------ bounds
\* process_query calls in one run, over all sessions
MaxCalls == 2
\* ------------------------------------------------------------- input sets
Missing == "<omitted>"
DefaultSession == "default_session"
Sessions == {DefaultSession, "s1"}
Queries == {"q1", "q2"}
Answers == {"a1"}
Texts == {"t1"}
Audio == {<<>>, <<73, 68>>}
\* /ask requests that may be between their two collaborator calls at one time
Slots == {1, 2}

\* What a request may carry: a field is given or omitted.  The default session
\* is reached by omitting session_id, "en" and "male" by omitting lang and voice.
AskForms == [query : Queries \cup {Missing}, session_id : {"s1", Missing}]
HistoryParams == [session_id : {"s1", Missing}]
TtsForms == [text : Texts \cup {Missing}, lang : {"hi", Missing},
             voice : {"female", Missing}]

VARIABLES
    store,      \* session_store: session_id -> SessionHistory | absent
    sized,      \* whether the store's history objects define __len__
    ver,        \* per session_id, the process_query calls made so far
    pending,    \* /ask requests between process_query and the re-fetch
    lastHist,   \* per session_id, the last /history response
    resp        \* the last response of /, /ask or /tts

vars == <<store, sized, ver, pending, lastHist, resp>>

\* ----------------------------------------------------- collaborators
NoHistory == [present |-> FALSE, messages |-> <<>>]
NoResponse == [route |-> "none"]
Idle == [busy |-> FALSE]

\* One collaborator call as the request log records it.
Call(fn, args, raised) == [fn |-> fn, args |-> args, raised |-> raised]

HumanMessage(content) == [type |-> "human", content |-> content]
AIMessage(content) == [type |-> "ai", content |-> content]

\* session_store.get_session_history(session_id) -> SessionHistory | absent
get_session_history(session_id) == store[session_id]

\* chat.process_query(query, session_id): what one call may do.  It returns an
\* answer after appending the exchange to the session, or raises, leaving the
\* session untouched, created, or with the question recorded.
ProcessQueryOutcomes(query) ==
    { [raised |-> FALSE, touched |-> TRUE, answer |-> a,
       appended |-> <<HumanMessage(query), AIMessage(a)>>] : a \in Answers }
    \cup { [raised |-> TRUE, touched |-> FALSE, answer |-> "", appended |-> <<>>],
           [raised |-> TRUE, touched |-> TRUE, answer |-> "", appended |-> <<>>],
           [raised |-> TRUE, touched |-> TRUE, answer |-> "",
            appended |-> <<HumanMessage(query)>>] }

\* Mutant: process_query keeps only the messages of its own call.
process_query_reset(st, session_id, o) ==
    IF o.touched
    THEN [st EXCEPT ![session_id] = [present |-> TRUE, messages |-> o.appended]]
    ELSE st

\* The store after a process_query call with outcome o on session_id.
process_query(st, session_id, o) ==
    IF o.touched
    THEN [st EXCEPT ![session_id] =
             [present |-> TRUE, messages |-> @.messages \o o.appended]]
    ELSE st

\* talk.text_to_speech(text, lang, voice): the byte strings one call may return.
TextToSpeechResults(text, lang, voice) ==
    IF lang = "en" /\ voice = "male" THEN Audio \ {<<>>} ELSE Audio

\* ----------------------------------------------------------- the router
\* A required Form(...) field is absent: the framework's 422.
RequestValidationError == [status |-> 422, body |-> [detail |-> "Field required"]]

\* An exception leaving a handler: the framework's 500.
ServerError == [status |-> 500, body |-> [detail |-> "Internal Server Error"]]

\* Python truth value of the object `st`: None is false; an object is true
\* unless its class defines __len__ and it is empty.
Truthy(st) == st.present /\ (sized => Len(st.messages) > 0)

\* session_id: str = "default_session"
HistorySessionId(params) ==
    IF params.session_id = Missing THEN DefaultSession ELSE params.session_id

\* Mutant: no `is None` test, so chat.messages raises for an unknown session.
get_history_unchecked(chat) ==
    IF ~chat.present
    THEN ServerError
    ELSE [status |-> 200,
          body |-> [chat_history |->
              [i \in 1..Len(chat.messages) |->
                  [role |-> chat.messages[i].type,
                   content |-> chat.messages[i].content]]]]

\* get_history, after its get_session_history call returned `chat`.
get_history(chat) ==
    IF ~chat.present
    THEN [status |-> 200, body |-> [chat_history |-> <<>>]]
    ELSE [status |-> 200,
          body |-> [chat_history |->
              [i \in 1..Len(chat.messages) |->
                  [role |-> chat.messages[i].type,
                   content |-> chat.messages[i].content]]]]

\* Mutant: query declared optional.
AskFormOptional(form) == TRUE

\* query: str = Form(...): the framework rejects a form without `query`.
AskFormValid(form) == form.query # Missing

\* Mutant: the form's session_id is ignored.
AskSessionIdIgnored(form) == DefaultSession

\* session_id: str = Form(default="default_session")
AskSessionId(form) ==
    IF form.session_id = Missing THEN DefaultSession ELSE form.session_id

\* Mutant: the stored message objects are returned as they are.
AskHistoryRaw(st) == IF Truthy(st) THEN st.messages ELSE <<>>

\* history = []; if st: history = [...]
AskHistory(st) ==
    IF Truthy(st)
    THEN [i \in 1..Len(st.messages) |->
             [role |-> st.messages[i].type, content |-> st.messages[i].content]]
    ELSE <<>>

\* text: str = Form(...): the framework rejects a form without `text`.
TtsFormValid(form) == form.text # Missing

\* Mutant: another default language.
TtsLangOtherDefault(form) == IF form.lang = Missing THEN "hi" ELSE form.lang

\* lang: str = Form("en")
TtsLang(form) == IF form.lang = Missing THEN "en" ELSE form.lang

\* voice: str = Form("male")
TtsVoice(form) == IF form.voice = Missing THEN "male" ELSE form.voice

\* fastapi.responses.Response(content=..., media_type=...)
Response(content, media_type) ==
    [status |-> 200, media_type |-> media_type, content |-> content]

\* ---------------------------------------------------------------- state
Init ==
    /\ store = [s \in Sessions |-> NoHistory]
    /\ sized \in BOOLEAN
    /\ ver = [s \in Sessions |-> 0]
    /\ pending = [k \in Slots |-> Idle]
    /\ lastHist = [s \in Sessions |-> NoResponse]
    /\ resp = NoResponse

\* The process_query calls made so far, over all sessions.
RECURSIVE SumVer(_)
SumVer(S) ==
    IF S = {} THEN 0
    ELSE LET s == CHOOSE x \in S : TRUE IN ver[s] + SumVer(S \ {s})

TotalCalls == SumVer(Sessions)

\* GET /
root ==
    /\ resp' = [route |-> "/", status |-> 200,
                body |-> [message |-> "Careerist Chatbot Backend Running"],
                calls |-> <<>>]
    /\ UNCHANGED <<store, sized, ver, pending, lastHist>>

\* Mutant: /history creates the session it does not find.
HistoryCreating(params) ==
    LET session_id == HistorySessionId(params)
        chat == get_session_history(session_id)
        r == get_history(chat)
    IN /\ lastHist' = [lastHist EXCEPT ![session_id] =
              [route |-> "/history", params |-> params, status |-> r.status,
               body |-> r.body,
               calls |-> <<Call("get_session_history", <<session_id>>, FALSE)>>,
               seen |-> chat, ver |-> ver[session_id]]]
       /\ store' = [store EXCEPT ![session_id] =
              [present |-> TRUE, messages |-> @.messages]]
       /\ UNCHANGED <<sized, ver, pending, resp>>

\* GET /history
History(params) ==
    LET session_id == HistorySessionId(params)
        chat == get_session_history(session_id)
        r == get_history(chat)
    IN /\ lastHist' = [lastHist EXCEPT ![session_id] =
              [route |-> "/history", params |-> params, status |-> r.status,
               body |-> r.body,
               calls |-> <<Call("get_session_history", <<session_id>>, FALSE)>>,
               seen |-> chat, ver |-> ver[session_id]]]
       /\ UNCHANGED <<store, sized, ver, pending, resp>>

\* POST /ask without `query`: rejected before ask_question runs.
AskReject(form) ==
    /\ ~AskFormValid(form)
    /\ resp' = [route |-> "/ask", form |-> form,
                status |-> RequestValidationError.status,
                body |-> RequestValidationError.body, calls |-> <<>>]
    /\ UNCHANGED <<store, sized, ver, pending, lastHist>>

\* Mutant: the exception is caught and an empty answer returned.
AskFailureCaught(form, calls) ==
    [route |-> "/ask", form |-> form, status |-> 200,
     body |-> [answer |-> "", chat_history |-> <<>>], calls |-> calls]

\* What /ask answers when process_query raised, having made `calls`.
AskFailure(form, calls) ==
    [route |-> "/ask", form |-> form, status |-> ServerError.status,
     body |-> ServerError.body, calls |-> calls]

\* Mutant: the history is read before process_query is called.
AskCallStale(k, form) ==
    /\ AskFormValid(form)
    /\ ~pending[k].busy
    /\ \A j \in Slots : j < k => pending[j].busy
    /\ LET session_id == AskSessionId(form)
           st == get_session_history(session_id)
       IN /\ TotalCalls < MaxCalls
          /\ \E o \in ProcessQueryOutcomes(form.query) :
             LET calls == <<Call("process_query", <<form.query, session_id>>,
                                 o.raised)>>
             IN
                /\ store' = process_query(store, session_id, o)
                /\ ver' = [ver EXCEPT ![session_id] = @ + 1]
                /\ IF o.raised
                   THEN resp' = AskFailure(form, calls)
                   ELSE resp' = [route |-> "/ask", form |-> form, status |-> 200,
                                 body |-> [answer |-> o.answer,
                                           chat_history |-> AskHistory(st)],
                                 calls |-> calls \o
                                     <<Call("get_session_history",
                                            <<session_id>>, FALSE)>>,
                                 seen |-> st, ver |-> ver'[session_id],
                                 base |-> Len(store[session_id].messages),
                                 appended |-> o.appended]
    /\ UNCHANGED <<sized, lastHist, pending>>

\* POST /ask, up to the return of process_query.
AskCall(k, form) ==
    /\ AskFormValid(form)
    /\ ~pending[k].busy
    \* the slots are interchangeable: a request takes the first free one
    /\ \A j \in Slots : j < k => pending[j].busy
    /\ LET session_id == AskSessionId(form)
       IN /\ TotalCalls < MaxCalls
          /\ \E o \in ProcessQueryOutcomes(form.query) :
             LET calls == <<Call("process_query", <<form.query, session_id>>,
                                 o.raised)>>
             IN
                /\ store' = process_query(store, session_id, o)
                /\ ver' = [ver EXCEPT ![session_id] = @ + 1]
                /\ IF o.raised
                   THEN /\ resp' = AskFailure(form, calls)
                        /\ UNCHANGED pending
                   ELSE /\ pending' = [pending EXCEPT ![k] =
                               [busy |-> TRUE, form |-> form,
                                session_id |-> session_id, answer |-> o.answer,
                                calls |-> calls,
                                base |-> Len(store[session_id].messages),
                                appended |-> o.appended]]
                        /\ UNCHANGED resp
    /\ UNCHANGED <<sized, lastHist>>

\* Mutant: the response is built without the re-fetch.
AskFinishNoRefetch(k) ==
    /\ pending[k].busy
    /\ LET p == pending[k]
       IN resp' = [route |-> "/ask", form |-> p.form, status |-> 200,
                   body |-> [answer |-> p.answer, chat_history |-> <<>>],
                   calls |-> p.calls,
                   seen |-> NoHistory, ver |-> ver[p.session_id],
                   base |-> p.base, appended |-> p.appended]
    /\ pending' = [pending EXCEPT ![k] = Idle]
    /\ UNCHANGED <<store, sized, ver, lastHist>>

\* POST /ask, from the get_session_history re-fetch to the response.
AskFinish(k) ==
    /\ pending[k].busy
    /\ LET p == pending[k]
           st == get_session_history(p.session_id)
           history == AskHistory(st)
       IN resp' = [route |-> "/ask", form |-> p.form, status |-> 200,
                   body |-> [answer |-> p.answer, chat_history |-> history],
                   calls |-> p.calls \o
                       <<Call("get_session_history", <<p.session_id>>, FALSE)>>,
                   seen |-> st, ver |-> ver[p.session_id],
                   base |-> p.base, appended |-> p.appended]
    /\ pending' = [pending EXCEPT ![k] = Idle]
    /\ UNCHANGED <<store, sized, ver, lastHist>>

\* POST /tts without `text`: rejected before tts_endpoint runs.
TtsReject(form) ==
    /\ ~TtsFormValid(form)
    /\ resp' = [route |-> "/tts", form |-> form,
                status |-> RequestValidationError.status,
                body |-> RequestValidationError.body, calls |-> <<>>]
    /\ UNCHANGED <<store, sized, ver, pending, lastHist>>

\* What /tts answers when text_to_speech raised, having made `calls`.
TtsFailure(form, calls) ==
    [route |-> "/tts", form |-> form, status |-> ServerError.status,
     body |-> ServerError.body, calls |-> calls]

\* POST /tts
tts_endpoint(form) ==
    /\ TtsFormValid(form)
    /\ LET lang == TtsLang(form)
           voice == TtsVoice(form)
       IN \E raised \in BOOLEAN :
              LET calls == <<Call("text_to_speech", <<form.text, lang, voice>>,
                                  raised)>>
              IN
              IF raised
              THEN resp' = TtsFailure(form, calls)
              ELSE \E audio_bytes \in TextToSpeechResults(form.text, lang, voice) :
                      LET r == Response(audio_bytes, "audio/mpeg")
                      IN resp' = [route |-> "/tts", form |-> form,
                                  status |-> r.status, media_type |-> r.media_type,
                                  content |-> r.content, calls |-> calls,
                                  returned |-> audio_bytes]
    /\ UNCHANGED <<store, sized, ver, pending, lastHist>>

Next ==
    \/ root
    \/ \E params \in HistoryParams : History(params)
    \/ \E form \in AskForms : AskReject(form)
    \/ \E k \in Slots, form \in AskForms : AskCall(k, form)
    \/ \E k \in Slots : AskFinish(k)
    \/ \E form \in TtsForms : TtsReject(form)
    \/ \E form \in TtsForms : tts_endpoint(form)

Spec == Init /\ [][Next]_vars

\* ---------------------------------------------------------------- claims
\* The session a request names: its session_id field, or the documented
\* default when the field is omitted.
Requested(field) == IF field = Missing THEN "default_session" ELSE field

\* `json` lists `messages` one-to-one, in order, as {role, content} pairs.
ListsInOrder(json, messages) ==
    /\ Len(json) = Len(messages)
    /\ \A i \in 1..Len(messages) :
          json[i] = [role |-> messages[i].type, content |-> messages[i].content]

AskOK == resp.route = "/ask" /\ resp.status = 200

\* C1: the chat_history of an /ask response equals the chat_history of a
\* /history response for the same session_id when no process_query call on
\* that session lies between the two reads.
AskHistoryAgree ==
    \A s \in Sessions :
        ( /\ AskOK
          /\ Requested(resp.form.session_id) = s
          /\ lastHist[s].route = "/history"
          /\ lastHist[s].ver = resp.ver )
        => lastHist[s].body.chat_history = resp.body.chat_history

AskHistoryAgreeWitness ==
    \E s \in Sessions :
        /\ AskOK
        /\ Requested(resp.form.session_id) = s
        /\ lastHist[s].route = "/history"
        /\ lastHist[s].ver = resp.ver
        /\ Len(resp.body.chat_history) >= 3

\* C2: from one /history observation of a session to the next, the length
\* of the transcript returned never decreases.
HistoryNeverShrinks ==
    [][\A s \in Sessions :
          lastHist[s].route = "/history"
          => Len(lastHist'[s].body.chat_history)
                 >= Len(lastHist[s].body.chat_history)]_vars

HistoryNeverShrinksWitness ==
    \E s \in Sessions :
        /\ lastHist[s].route = "/history"
        /\ lastHist[s].ver = 2
        /\ Len(lastHist[s].body.chat_history) >= 3

\* C3: /history for a session the store does not know (get_session_history
\* returned absent) answers 200 with {"chat_history": []}, never an error.
UnknownSessionEmpty ==
    \A s \in Sessions :
        (lastHist[s].route = "/history" /\ ~lastHist[s].seen.present)
        => /\ lastHist[s].status = 200
           /\ lastHist[s].body = [chat_history |-> <<>>]

UnknownSessionEmptyWitness ==
    /\ lastHist["s1"].route = "/history"
    /\ ~lastHist["s1"].seen.present
    /\ store[DefaultSession].present

\* C4: an /ask without `query` is answered 4xx, carries no answer, and
\* process_query is not invoked for it.
MissingQueryRejected ==
    /\ (resp.route = "/ask" /\ resp.form.query = Missing)
       => /\ resp.status \in 400..499
          /\ "answer" \notin DOMAIN resp.body
          /\ \A i \in DOMAIN resp.calls : resp.calls[i].fn # "process_query"
    /\ \A k \in Slots : pending[k].busy => pending[k].form.query # Missing

MissingQueryRejectedWitness ==
    /\ resp.route = "/ask"
    /\ resp.form.query = Missing
    /\ resp.form.session_id = "s1"
    /\ ~store["s1"].present

\* C5: a /history or /tts request leaves every session of the store as it
\* was; the store changes only in a step of an /ask that is a process_query
\* call.
OnlyAskWrites ==
    [][ /\ lastHist' # lastHist => store' = store
        /\ (resp' # resp /\ resp'.route = "/tts") => store' = store
        /\ store' # store
           => /\ SumVer(Sessions)' = SumVer(Sessions) + 1
              /\ \/ \E k \in Slots : pending'[k] # pending[k] /\ pending'[k].busy
                 \/ pending' = pending /\ resp'.route = "/ask" ]_vars

OnlyAskWritesWitness ==
    /\ resp.route = "/tts"
    /\ lastHist["s1"].route = "/history"
    /\ lastHist["s1"].seen.present
    /\ store["s1"].present
    /\ ~store[DefaultSession].present

\* C6: when process_query or text_to_speech raises, the request ends in a
\* 500 with no answer, chat_history or audio, the collaborator having been
\* invoked once and nothing else; the request does not go on.
FailurePropagates ==
    /\ (resp.route \in {"/ask", "/tts"}
        /\ \E i \in DOMAIN resp.calls : resp.calls[i].raised)
       => /\ resp.status = 500
          /\ Len(resp.calls) = 1
          /\ DOMAIN resp.body \cap {"answer", "chat_history"} = {}
          /\ "content" \notin DOMAIN resp
    /\ \A k \in Slots :
          pending[k].busy
          => \A i \in DOMAIN pending[k].calls : ~pending[k].calls[i].raised

FailurePropagatesWitness ==
    /\ resp.route = "/ask"
    /\ Len(resp.calls) = 1
    /\ resp.calls[1].fn = "process_query"
    /\ resp.calls[1].raised

Count(calls, fn) == Cardinality({i \in DOMAIN calls : calls[i].fn = fn})

\* How many calls of each collaborator a request made.
Made(calls, pq, gsh, tts) ==
    /\ Count(calls, "process_query") = pq
    /\ Count(calls, "get_session_history") = gsh
    /\ Count(calls, "text_to_speech") = tts
    /\ Len(calls) = pq + gsh + tts

\* A request whose handler ran: the framework did not reject its form.
Handled(r) == r.route # "none" /\ r.status # 422

\* C7 as stated: every handled request makes one collaborator call, except
\* /ask, which makes one process_query call and one get_session_history call;
\* GET / makes none.
OneCallPerRequest ==
    /\ (Handled(resp) /\ resp.route = "/") => Made(resp.calls, 0, 0, 0)
    /\ (Handled(resp) /\ resp.route = "/ask") => Made(resp.calls, 1, 1, 0)
    /\ (Handled(resp) /\ resp.route = "/tts") => Made(resp.calls, 0, 0, 1)
    /\ \A s \in Sessions : Handled(lastHist[s]) => Made(lastHist[s].calls, 0, 1, 0)

\* C7 as amended: as above, but an /ask makes its get_session_history call
\* only when its process_query call returned; when that call raised, the
\* request made the process_query call and no other.
OneCallPerRequestUnlessRaised ==
    /\ (Handled(resp) /\ resp.route = "/") => Made(resp.calls, 0, 0, 0)
    /\ (Handled(resp) /\ resp.route = "/ask")
       => IF resp.calls[1].raised
          THEN Made(resp.calls, 1, 0, 0)
          ELSE Made(resp.calls, 1, 1, 0)
    /\ (Handled(resp) /\ resp.route = "/tts") => Made(resp.calls, 0, 0, 1)
    /\ \A s \in Sessions : Handled(lastHist[s]) => Made(lastHist[s].calls, 0, 1, 0)

OneCallPerRequestWitness ==
    /\ AskOK
    /\ Made(resp.calls, 1, 1, 0)
    /\ \E s \in Sessions : Handled(lastHist[s])

\* C8: a successful /tts answers with media type audio/mpeg and exactly the
\* bytes text_to_speech returned for (text, lang, voice), lang and voice
\* being "en" and "male" when omitted; for "en" and "male" the body is not
\* empty.
TtsForwardsAudio ==
    (resp.route = "/tts" /\ resp.status = 200)
    => LET lang == IF resp.form.lang = Missing THEN "en" ELSE resp.form.lang
           voice == IF resp.form.voice = Missing THEN "male" ELSE resp.form.voice
       IN /\ resp.media_type = "audio/mpeg"
          /\ Len(resp.calls) = 1
          /\ resp.calls[1].fn = "text_to_speech"
          /\ resp.calls[1].args = <<resp.form.text, lang, voice>>
          /\ resp.content = resp.returned
          /\ (lang = "en" /\ voice = "male") => resp.content # <<>>

TtsForwardsAudioWitness ==
    /\ resp.route = "/tts"
    /\ resp.status = 200
    /\ resp.form.lang = Missing
    /\ resp.form.voice = Missing
    /\ resp.content # <<>>

\* C9: an /ask calls process_query first and get_session_history second, and
\* the chat_history it returns holds, at the place they were appended, the
\* messages its own process_query call appended, whatever other requests ran
\* in between.
AskSeesOwnMessages ==
    AskOK
    => /\ Len(resp.calls) = 2
       /\ resp.calls[1].fn = "process_query"
       /\ resp.calls[2].fn = "get_session_history"
       /\ Len(resp.body.chat_history) >= resp.base + Len(resp.appended)
       /\ \A i \in 1..Len(resp.appended) :
             resp.body.chat_history[resp.base + i] =
                 [role |-> resp.appended[i].type,
                  content |-> resp.appended[i].content]

\* another /ask on the same session ran between the two calls
AskSeesOwnMessagesWitness ==
    /\ AskOK
    /\ Len(resp.appended) = 2
    /\ Len(resp.body.chat_history) > resp.base + Len(resp.appended)
    /\ \E k \in Slots :
          /\ pending[k].busy
          /\ pending[k].session_id = Requested(resp.form.session_id)

\* Every call of the request log carries the session the request names.
CallsCarry(calls, session) ==
    \A i \in DOMAIN calls :
        calls[i].args[Len(calls[i].args)] = session

\* C10: process_query and get_session_history receive the request's
\* session_id ("default_session" when omitted), the chat_history returned
\* lists the stored messages of that session one-to-one in order as
\* {role, content} pairs, and an /ask changes the transcript of no session
\* but the one it names.
SessionsIsolatedState ==
    /\ AskOK
       => /\ CallsCarry(resp.calls, Requested(resp.form.session_id))
          /\ ListsInOrder(resp.body.chat_history, resp.seen.messages)
    /\ (resp.route = "/ask" /\ resp.status = 500)
       => CallsCarry(resp.calls, Requested(resp.form.session_id))
    /\ \A k \in Slots :
          pending[k].busy
          => CallsCarry(pending[k].calls, Requested(pending[k].form.session_id))
    /\ \A s \in Sessions :
          lastHist[s].route = "/history"
          => /\ CallsCarry(lastHist[s].calls, Requested(lastHist[s].params.session_id))
             /\ ListsInOrder(lastHist[s].body.chat_history, lastHist[s].seen.messages)

SessionsIsolatedStep ==
    \A s \in Sessions :
        store'[s] # store[s]
        => \/ \E k \in Slots :
                 /\ pending'[k] # pending[k]
                 /\ pending'[k].busy
                 /\ Requested(pending'[k].form.session_id) = s
           \/ /\ pending' = pending
              /\ resp'.route = "/ask"
              /\ Requested(resp'.form.session_id) = s

SessionsIsolated == []SessionsIsolatedState /\ [][SessionsIsolatedStep]_vars

SessionsIsolatedWitness ==
    /\ AskOK
    /\ resp.form.session_id = Missing
    /\ Len(resp.body.chat_history) >= 2
    /\ Len(store["s1"].messages) >= 1
    /\ store["s1"].messages # store[DefaultSession].messages

====
